---------------------------- MODULE Spec2Model ----------------------------
(***************************************************************************)
(* Model of the credential manager (src/src/tailscale/oauth.ts) and of the *)
(* input validators (src/src/utils.ts) of tailscale-mcp.                   *)
(*                                                                         *)
(* Three specifications share the module:                                  *)
(*   Spec         the TailscaleOAuthManager instance: its cached token,    *)
(*                the clock, concurrent getAccessToken() calls and the     *)
(*                answers of the token endpoint;                           *)
(*   SpecEnv      construction of a manager and the static discovery       *)
(*                helpers isConfigured() / fromEnvironment();              *)
(*   SpecValidate the validators applied to bounded input strings.         *)
(* Times are in milliseconds, as Date.getTime() reports them.              *)
(***************************************************************************)
EXTENDS Integers, Sequences, FiniteSets, TLC

VARIABLES
    mgr,        \* the manager's fields: accessToken, tokenExpiry, config
    now,        \* the wall clock, Date.now(), in ms
    calls,      \* the getAccessToken() calls: where each is and what it got
    issued,     \* number of token exchanges (axios.post) issued so far
    stored,     \* history: when the cached token was stored, and its lifetime
    burned,     \* history: tokens that were cached when an exchange failed
    lastOp,     \* history: the operation that produced this state
    hist,       \* history: what invalidations and failures have touched
    env,        \* process.env: the three variables oauth.ts reads
    made,       \* result of a construction / discovery helper
    input,      \* the value handed to a validator
    outcome     \* what the validator did with it

vars == <<mgr, now, calls, issued, stored, burned, lastOp, hist, env, made, input, outcome>>

envVars == <<env, made>>
validateVars == <<input, outcome>>

(***************************************************************************)
(* Bounds of the model.                                                    *)
(***************************************************************************)
NumCalls == 3
MaxTicks == 4

(***************************************************************************)
(* JavaScript values.                                                      *)
(***************************************************************************)
Null == "<null>"
Undefined == "<undefined>"
NullDate == -1

\* JavaScript truthiness of a string-or-missing value.
Truthy(v) == v # Null /\ v # Undefined /\ v # ""

(***************************************************************************)
(* TailscaleOAuthManager: instance state.                                  *)
(***************************************************************************)
expiryBuffer == 60

DefaultBaseUrl == "https://api.tailscale.com"

TestConfig ==
    [clientId |-> "test-client-id", clientSecret |-> "test-client-secret",
     baseUrl |-> DefaultBaseUrl]

NewManager(config) ==
    [accessToken |-> Null, tokenExpiry |-> NullDate, config |-> config]

isTokenValidStale(m, t) ==
    IF m.accessToken = Null \/ m.accessToken = "" \/ m.tokenExpiry = NullDate
    THEN FALSE
    ELSE m.tokenExpiry - t >= expiryBuffer * 1000

isTokenValidNoBuffer(m, t) ==
    IF m.accessToken = Null \/ m.accessToken = "" \/ m.tokenExpiry = NullDate
    THEN FALSE
    ELSE m.tokenExpiry - t > 0

isTokenValidNever(m, t) == FALSE

isTokenValidAnyCached(m, t) ==
    ~(m.accessToken = Null \/ m.accessToken = "" \/ m.tokenExpiry = NullDate)

isTokenValid(m, t) ==
    IF m.accessToken = Null \/ m.accessToken = "" \/ m.tokenExpiry = NullDate
    THEN FALSE
    ELSE m.tokenExpiry - t > expiryBuffer * 1000

\* The try branch of refreshToken after the await: lines 97-106.
storeTokenNotCached(m, data, t) == m

storeTokenKeepExpiry(m, data, t) ==
    [m EXCEPT !.accessToken = data.access_token]

storeToken(m, data, t) ==
    [m EXCEPT !.accessToken = data.access_token,
              !.tokenExpiry = t + data.expires_in * 1000]

\* The first two statements of the catch branch: lines 108-109.
clearOnFailureKeep(m) == m

clearOnFailure(m) ==
    [m EXCEPT !.accessToken = Null, !.tokenExpiry = NullDate]

invalidateTokenHalf(m) ==
    [m EXCEPT !.accessToken = Null]

invalidateToken(m) ==
    [m EXCEPT !.accessToken = Null, !.tokenExpiry = NullDate]

(***************************************************************************)
(* Construction and discovery: constructor, isConfigured, fromEnvironment. *)
(* An OAuthConfig is a record of the three keys; Absent marks a key the    *)
(* object literal does not have, Undefined a key that is present with the  *)
(* value undefined.                                                        *)
(***************************************************************************)
Absent == "<absent>"

\* Reading a property: an absent key reads as undefined.
Read(v) == IF v = Absent THEN Undefined ELSE v

\* Lines 36-39: { baseUrl: "https://api.tailscale.com", ...config }. The
\* spread copies every own property of config, a present key whose value is
\* undefined included, over the default.
spreadConfig(config) ==
    [clientId |-> Read(config.clientId),
     clientSecret |-> Read(config.clientSecret),
     baseUrl |-> IF config.baseUrl = Absent THEN DefaultBaseUrl
                 ELSE config.baseUrl]

RequiredMessage ==
    "OAuth client ID and secret are required for OAuth authentication"

NoConfig == [clientId |-> Undefined, clientSecret |-> Undefined, baseUrl |-> Undefined]

Thrown(msg) ==
    [kind |-> "throw", value |-> FALSE, manager |-> NewManager(NoConfig),
     error |-> [name |-> "Error", message |-> msg]]

ReturnedManager(m) ==
    [kind |-> "manager", value |-> FALSE, manager |-> m,
     error |-> [name |-> "", message |-> ""]]

ReturnedNull ==
    [kind |-> "null", value |-> FALSE, manager |-> NewManager(NoConfig),
     error |-> [name |-> "", message |-> ""]]

ReturnedBool(b) ==
    [kind |-> "bool", value |-> b, manager |-> NewManager(NoConfig),
     error |-> [name |-> "", message |-> ""]]

\* Lines 35-46.
constructor(config) ==
    LET merged == spreadConfig(config)
    IN IF ~Truthy(merged.clientId) \/ ~Truthy(merged.clientSecret)
       THEN Thrown(RequiredMessage)
       ELSE ReturnedManager(NewManager(merged))

\* Lines 143-148.
isConfiguredEither(e) ==
    Truthy(e.TAILSCALE_OAUTH_CLIENT_ID) \/ Truthy(e.TAILSCALE_OAUTH_CLIENT_SECRET)

isConfigured(e) ==
    Truthy(e.TAILSCALE_OAUTH_CLIENT_ID) /\ Truthy(e.TAILSCALE_OAUTH_CLIENT_SECRET)

\* Lines 153-166.
fromEnvironment(e) ==
    LET clientId == e.TAILSCALE_OAUTH_CLIENT_ID
        clientSecret == e.TAILSCALE_OAUTH_CLIENT_SECRET
    IN IF ~Truthy(clientId) \/ ~Truthy(clientSecret)
       THEN ReturnedNull
       ELSE constructor([clientId |-> clientId, clientSecret |-> clientSecret,
                         baseUrl |-> e.TAILSCALE_API_BASE_URL])

(***************************************************************************)
(* The token endpoint's answers.                                           *)
(***************************************************************************)
\* expires_in of a successful exchange, in seconds.
ExpiresIn == {60, 61, 62}

\* The access_token minted by the k-th exchange the endpoint answers.
TokenOf(k) == "tok" \o ToString(k)

\* AxiosError rejections: error.response?.data fields ("" when absent) and
\* error.message, which axios always sets.
AxiosErrors ==
    { [error_description |-> "client credentials are invalid",
       error |-> "invalid_client",
       message |-> "Request failed with status code 401"],
      [error_description |-> "",
       error |-> "invalid_client",
       message |-> "Request failed with status code 401"],
      [error_description |-> "",
       error |-> "",
       message |-> "timeout of 30000ms exceeded"] }

\* 2xx answers whose body is not an OAuthTokenResponse: destructuring a null
\* body throws a TypeError at line 97; a body without a numeric expires_in
\* makes tokenExpiry an Invalid Date, whose toISOString() throws a RangeError
\* at line 103.
BadBodies == {"null", "no_expires_in"}

RawErrorOf(body) ==
    IF body = "null"
    THEN [name |-> "TypeError",
          message |-> "Cannot destructure property 'access_token' of 'response.data' as it is null."]
    ELSE [name |-> "RangeError", message |-> "Invalid time value"]

\* Lines 112-117: the || chain that picks the reported reason.
errorMsg(e) ==
    IF e.error_description # "" THEN e.error_description
    ELSE IF e.error # "" THEN e.error
    ELSE IF e.message # "" THEN e.message
    ELSE "Failed to obtain OAuth token"

\* Line 124.
AuthFailure(e) ==
    [name |-> "Error", message |-> "OAuth authentication failed: " \o errorMsg(e)]

(***************************************************************************)
(* getAccessToken() calls.                                                 *)
(***************************************************************************)
CallIds == 1..NumCalls

NoError == [name |-> "", message |-> ""]

\* pc: idle (not yet called), inflight (awaiting axios.post), cached
\* (resolved with the cached token), fetched (resolved with the token of its
\* own exchange), failed (rejected).
IdleCall == [pc |-> "idle", result |-> Null]

NoCause == [error_description |-> "", error |-> "", message |-> ""]

NoOp == [op |-> "init", thrown |-> NoError, cause |-> NoCause, detail |-> ""]

\* overtaken: the calls whose exchange is awaiting its answer and was already
\* doing so during an invalidateToken() call; undone: the cached token was
\* stored by such an exchange; failedSince: a call has failed and no call has
\* been made since.
NoHistory == [overtaken |-> {}, undone |-> FALSE, failedSince |-> FALSE]

NothingMade == [op |-> "none", arg |-> NoConfig, got |-> ReturnedNull]

InitEnvIdle ==
    /\ env = [TAILSCALE_OAUTH_CLIENT_ID |-> Undefined,
              TAILSCALE_OAUTH_CLIENT_SECRET |-> Undefined,
              TAILSCALE_API_BASE_URL |-> Undefined]
    /\ made = NothingMade

InitValidateIdle ==
    /\ input = [t |-> "undefined", s |-> <<>>, items |-> <<>>]
    /\ outcome = [op |-> "none", field |-> "",
                  got |-> [ok |-> TRUE, name |-> "", message |-> "", via |-> "none"]]

InitOAuth ==
    /\ mgr = NewManager(TestConfig)
    /\ now = 0
    /\ calls = [c \in CallIds |-> IdleCall]
    /\ issued = 0
    /\ stored = [at |-> 0, expires_in |-> 0]
    /\ burned = {}
    /\ lastOp = NoOp
    /\ hist = NoHistory

Init == InitOAuth /\ InitEnvIdle /\ InitValidateIdle

ClockSteps == {500}

Tick ==
    /\ \E d \in ClockSteps :
          /\ now + d <= MaxTicks * d
          /\ now' = now + d
    /\ lastOp' = [op |-> "tick", thrown |-> NoError, cause |-> NoCause, detail |-> ""]
    /\ hist' = hist
    /\ UNCHANGED <<mgr, calls, issued, stored, burned, envVars, validateVars>>

\* getAccessToken(), lines 51-60, up to the await inside refreshToken():
\* either the cached token is returned, or the exchange request is sent.
GetAccessToken(c) ==
    /\ calls[c].pc = "idle"
    /\ \A d \in CallIds : d < c => calls[d].pc # "idle"
    /\ IF isTokenValid(mgr, now)
       THEN /\ calls' = [calls EXCEPT ![c] =
                            [pc |-> "cached", result |-> mgr.accessToken]]
            /\ issued' = issued
            /\ lastOp' = [op |-> "getCached", thrown |-> NoError, cause |-> NoCause, detail |-> ""]
       ELSE /\ calls' = [calls EXCEPT ![c] = [@ EXCEPT !.pc = "inflight"]]
            /\ issued' = issued + 1
            /\ lastOp' = [op |-> "getRefresh", thrown |-> NoError, cause |-> NoCause, detail |-> ""]
    /\ hist' = [hist EXCEPT !.failedSince = FALSE]
    /\ UNCHANGED <<mgr, now, stored, burned, envVars, validateVars>>

\* The exchange of call c is answered with a token: lines 97-106.
RefreshSucceeds(c) ==
    /\ calls[c].pc = "inflight"
    /\ \E e \in ExpiresIn :
          LET k == Cardinality({d \in CallIds : calls[d].pc = "fetched"}) + 1
              data == [access_token |-> TokenOf(k), expires_in |-> e]
          IN /\ mgr' = storeToken(mgr, data, now)
             /\ calls' = [calls EXCEPT ![c] =
                             [pc |-> "fetched", result |-> data.access_token]]
             /\ stored' = [at |-> now, expires_in |-> e]
    /\ lastOp' = [op |-> "refreshOk", thrown |-> NoError, cause |-> NoCause, detail |-> ""]
    /\ hist' = [hist EXCEPT !.overtaken = @ \ {c}, !.undone = c \in hist.overtaken]
    /\ UNCHANGED <<now, issued, burned, envVars, validateVars>>

\* The exchange of call c is rejected with an AxiosError: lines 107-125.
RefreshRejected(c) ==
    /\ calls[c].pc = "inflight"
    /\ \E e \in AxiosErrors :
          lastOp' = [op |-> "refreshRejected", thrown |-> AuthFailure(e),
                     cause |-> e, detail |-> ""]
    /\ mgr' = clearOnFailure(mgr)
    /\ calls' = [calls EXCEPT ![c] = [@ EXCEPT !.pc = "failed"]]
    /\ burned' = IF mgr.accessToken # Null THEN burned \cup {mgr.accessToken}
                 ELSE burned
    /\ hist' = [overtaken |-> hist.overtaken \ {c}, undone |-> FALSE,
                failedSince |-> TRUE]
    /\ UNCHANGED <<now, issued, stored, envVars, validateVars>>

\* The exchange of call c is answered 2xx with an unusable body: an error
\* that is no AxiosError is raised inside the try block, the catch branch
\* clears the cache and rethrows it as it is (line 127).
RefreshBadBody(c) ==
    /\ calls[c].pc = "inflight"
    /\ \E b \in BadBodies :
          lastOp' = [op |-> "refreshBadBody", thrown |-> RawErrorOf(b),
                     cause |-> NoCause, detail |-> b]
    /\ mgr' = clearOnFailure(mgr)
    /\ calls' = [calls EXCEPT ![c] = [@ EXCEPT !.pc = "failed"]]
    /\ burned' = IF mgr.accessToken # Null THEN burned \cup {mgr.accessToken}
                 ELSE burned
    /\ hist' = [overtaken |-> hist.overtaken \ {c}, undone |-> FALSE,
                failedSince |-> TRUE]
    /\ UNCHANGED <<now, issued, stored, envVars, validateVars>>

\* invalidateToken(), lines 134-138.
InvalidateToken ==
    /\ mgr' = invalidateToken(mgr)
    /\ lastOp' = [op |-> "invalidate", thrown |-> NoError, cause |-> NoCause,
                  detail |-> IF mgr.accessToken = Null THEN "none"
                             ELSE IF isTokenValid(mgr, now) THEN "fresh"
                             ELSE "stale"]
    /\ hist' = [hist EXCEPT !.overtaken = {c \in CallIds : calls[c].pc = "inflight"},
                            !.undone = FALSE]
    /\ UNCHANGED <<now, calls, issued, stored, burned, envVars, validateVars>>

Next ==
    \/ Tick
    \/ \E c \in CallIds : GetAccessToken(c)
    \/ \E c \in CallIds : RefreshSucceeds(c)
    \/ \E c \in CallIds : RefreshRejected(c)
    \/ \E c \in CallIds : RefreshBadBody(c)
    \/ InvalidateToken

Spec == Init /\ [][Next]_vars

(***************************************************************************)
(* Claims about the credential manager, checked under Spec.                *)
(***************************************************************************)
\* A step in which call c is made (getAccessToken() is invoked).
Made(c) == calls[c].pc = "idle" /\ calls'[c].pc # "idle"

\* A step in which the exchange of call c fails.
Failed(c) == calls[c].pc = "inflight" /\ calls'[c].pc = "failed"

\* A step in which call c resolves with a token.
Resolved(c) ==
    /\ calls[c].pc \in {"idle", "inflight"}
    /\ calls'[c].pc \in {"cached", "fetched"}

\* C1: while the token stored at time stored.at with lifetime
\* stored.expires_in (expiry = stored.at + expires_in) is the cached one, a
\* getAccessToken() call made at most expires_in - 61 seconds later returns
\* that token and issues no exchange, a call made expires_in - 60 seconds
\* later or more issues a new exchange, and a token is served from the cache
\* only while now + 60 s < expiry.
C1_FreshnessWindow ==
    [][\A c \in CallIds :
          (Made(c) /\ mgr.accessToken # Null) =>
             LET elapsed == now - stored.at
                 E == stored.expires_in
             IN /\ mgr.tokenExpiry = stored.at + E * 1000
                /\ (elapsed <= (E - 61) * 1000 =>
                       /\ calls'[c] = [pc |-> "cached", result |-> mgr.accessToken]
                       /\ issued' = issued)
                /\ (elapsed >= (E - 60) * 1000 =>
                       /\ calls'[c].pc = "inflight"
                       /\ issued' = issued + 1)
                /\ (calls'[c].pc = "cached" => now + 60 * 1000 < mgr.tokenExpiry)
      ]_vars

\* C1 witness: one call was served from the cache, and a later call, made
\* exactly expires_in - 60 seconds after the token was stored, has issued a
\* new exchange while that token was still in the cache.
C1_Witness ==
    /\ lastOp.op = "getRefresh"
    /\ mgr.accessToken # Null
    /\ now - stored.at = (stored.expires_in - 60) * 1000
    /\ \E c \in CallIds : calls[c].pc = "cached"

\* C2: a failed exchange clears the cached token and its expiry in that very
\* step, and no call ever resolves with a token that was in the cache when
\* an exchange failed, whatever the interleaving of calls and invalidations.
C2_FailClosed ==
    [][/\ \A c \in CallIds :
             Failed(c) => /\ mgr'.accessToken = Null
                          /\ mgr'.tokenExpiry = NullDate
       /\ \A c \in CallIds :
             Resolved(c) => calls'[c].result \notin burned'
       /\ mgr'.accessToken \notin burned'
      ]_vars

\* C2 witness: an exchange failed while a still fresh token was cached, and
\* the call made after the failure had to issue its own exchange.
C2_Witness ==
    /\ burned # {}
    /\ lastOp.op = "getRefresh"
    /\ \E c \in CallIds : calls[c].pc = "fetched" /\ calls[c].result \in burned
    /\ now - stored.at < (stored.expires_in - 60) * 1000

\* The reason the claim C3 expects in the message: the upstream
\* error_description when available, else the upstream error code, else the
\* transport-level failure message.
ClaimedReason(e) ==
    CASE e.error_description # "" -> e.error_description
      [] e.error # "" -> e.error
      [] OTHER -> e.message

AuthPrefix == "OAuth authentication failed: "

\* C3: every failure of the token exchange reaches the caller as an error of
\* the one authentication kind, with the message 'OAuth authentication
\* failed: <reason>'.
C3_EveryFailureIsAuthError ==
    lastOp.op \in {"refreshRejected", "refreshBadBody"} =>
        /\ lastOp.thrown.name = "Error"
        /\ \/ lastOp.thrown.message = AuthPrefix \o ClaimedReason(lastOp.cause)
           \/ \E b \in BadBodies :
                 lastOp.thrown.message = AuthPrefix \o RawErrorOf(b).message

\* C4: invalidateToken() can be called in every state and never throws; it
\* leaves no cached token and no cached expiry, leaves the configuration
\* and everything else alone, and a second call changes nothing more.
C4_InvalidateIdempotent ==
    /\ [](ENABLED InvalidateToken)
    /\ [][lastOp'.op = "invalidate" =>
             /\ lastOp'.thrown = NoError
             /\ mgr'.accessToken = Null
             /\ mgr'.tokenExpiry = NullDate
             /\ mgr'.config = mgr.config
             /\ invalidateToken(mgr') = mgr'
             /\ UNCHANGED <<now, calls, issued>>
         ]_vars

\* C4 witness: invalidateToken() has just cleared a token that was fresh.
C4_Witness ==
    /\ lastOp.op = "invalidate"
    /\ lastOp.detail = "fresh"
    /\ mgr.accessToken = Null

\* A token is cached whose expiry lies more than the 60 s buffer ahead.
FreshCached ==
    /\ mgr.accessToken # Null
    /\ mgr.tokenExpiry # NullDate
    /\ now + 60 * 1000 < mgr.tokenExpiry

\* The calls that have sent a token exchange.
Exchanging == {c \in CallIds : calls[c].pc \in {"inflight", "fetched", "failed"}}

\* C14: refreshes are not serialized.  Every getAccessToken() call made
\* while no fresh token is cached issues an exchange of its own, whatever
\* exchanges are already in flight, so the exchanges issued are as many as
\* such calls (N for N calls in flight together); and a call whose exchange
\* succeeds resolves with the token of that answer, which no other call's
\* exchange has returned.
C14_RefreshesNotSerialized ==
    /\ [](issued = Cardinality(Exchanging))
    /\ []((\A c \in CallIds : calls[c].pc = "inflight") => issued = NumCalls)
    /\ [][\A c \in CallIds :
             /\ (Made(c) /\ ~FreshCached) =>
                   /\ calls'[c].pc = "inflight"
                   /\ issued' = issued + 1
             /\ (calls[c].pc = "inflight" /\ calls'[c].pc = "fetched") =>
                   /\ calls'[c].result = mgr'.accessToken
                   /\ issued' = issued
                   /\ \A d \in CallIds \ {c} :
                         calls[d].pc = "fetched" => calls[d].result # calls'[c].result
         ]_vars

\* C14 witness: the first call's exchange is still in flight, all calls have
\* issued an exchange, and the later calls have resolved, each with a token
\* of its own.
C14_Witness ==
    /\ calls[1].pc = "inflight"
    /\ \A c \in CallIds \ {1} : calls[c].pc = "fetched"
    /\ \A c, d \in CallIds \ {1} : c # d => calls[c].result # calls[d].result
    /\ issued = NumCalls
    /\ now = 0


\* The calls whose exchange was answered with a token.
Fetched == {c \in CallIds : calls[c].pc = "fetched"}

\* C15: the cached token and the cached expiry are either both absent, or
\* both present and those of one exchange answer: the token is the one the
\* latest answer carried and the expiry is that answer's arrival time plus
\* its expires_in.  Every step leaves the pair alone, clears both, or
\* replaces both from the answer that resolves a call in that step.
C15_AtomicSwap ==
    /\ [](\/ mgr.accessToken = Null /\ mgr.tokenExpiry = NullDate
          \/ /\ mgr.accessToken # Null
             /\ mgr.tokenExpiry # NullDate
             /\ Fetched # {}
             /\ mgr.accessToken = TokenOf(Cardinality(Fetched))
             /\ mgr.tokenExpiry = stored.at + stored.expires_in * 1000)
    /\ [][\/ mgr'.accessToken = mgr.accessToken /\ mgr'.tokenExpiry = mgr.tokenExpiry
          \/ mgr'.accessToken = Null /\ mgr'.tokenExpiry = NullDate
          \/ \E c \in CallIds :
                /\ calls[c].pc = "inflight"
                /\ calls'[c].pc = "fetched"
                /\ mgr'.accessToken = calls'[c].result
                /\ mgr'.tokenExpiry = now + stored'.expires_in * 1000
                /\ stored'.at = now
         ]_vars

\* C15 witness: while another exchange is still in flight, a second answer has
\* replaced the cached pair.
C15_Witness ==
    /\ lastOp.op = "refreshOk"
    /\ Cardinality(Fetched) >= 2
    /\ \E c \in CallIds : calls[c].pc = "inflight"
    /\ mgr.accessToken = TokenOf(Cardinality(Fetched))
    /\ mgr.tokenExpiry = now + stored.expires_in * 1000

\* C16: the manager owns no retry loop.  A getAccessToken() call sends no
\* exchange when a fresh token is cached and exactly one otherwise; no other
\* step sends one; and when the exchange of a call fails, the call is
\* rejected in that step, sends nothing more, and stays rejected.
C16_NoRetry ==
    [][/\ \A c \in CallIds :
             /\ Made(c) =>
                   IF FreshCached
                   THEN issued' = issued /\ calls'[c].pc = "cached"
                   ELSE issued' = issued + 1 /\ calls'[c].pc = "inflight"
             /\ Failed(c) =>
                   /\ issued' = issued
                   /\ lastOp'.thrown # NoError
             /\ calls[c].pc = "failed" => calls'[c] = calls[c]
       /\ (\A c \in CallIds : ~Made(c)) => issued' = issued
       /\ issued' <= issued + 1
      ]_vars

\* C16 witness: one call was served from the cache without an exchange,
\* another has just been rejected because its exchange failed, and the
\* exchanges sent are one per call that needed one.
C16_Witness ==
    /\ lastOp.op \in {"refreshRejected", "refreshBadBody"}
    /\ \E c \in CallIds : calls[c].pc = "cached"
    /\ \E c \in CallIds : calls[c].pc = "failed"
    /\ issued = Cardinality(Exchanging)
    /\ issued < NumCalls

\* C17: once invalidateToken() has been called, no getAccessToken() call made
\* afterwards is served from the cache a token obtained by an exchange that
\* was started before that invalidateToken() call; it sends an exchange of
\* its own.
C17_InvalidationNotUndone ==
    [][\A d \in CallIds :
          (Made(d) /\ hist.undone) =>
              calls'[d].pc = "inflight" /\ issued' = issued + 1
      ]_vars

\* No exchange other than that of call c is awaiting its answer.
NoOtherInFlight(c) == \A x \in CallIds \ {c} : calls[x].pc # "inflight"

\* C18 as stated: after a getAccessToken() call has failed, the next
\* getAccessToken() call always attempts a new token exchange.
C18_NextCallRefreshes ==
    [][\A d \in CallIds :
          (Made(d) /\ hist.failedSince) =>
              calls'[d].pc = "inflight" /\ issued' = issued + 1
      ]_vars

\* C18, amended: a failed call leaves the cache empty; an empty cache
\* stays empty until an exchange that is in flight is answered, so if no
\* other exchange was in flight when the call failed, the cache is still
\* empty at the next getAccessToken() call; a call that finds the cache empty
\* attempts a new exchange (an exchange still in flight at the failure may
\* store a fresh token, from which the next call is then served); and a call
\* whose exchange succeeds gets the token of the answer, which is cached with
\* the expiry of that answer, as on first use.
C18_NotStuckAfterFailure ==
    [][/\ \A c \in CallIds :
             /\ Failed(c) => mgr'.accessToken = Null /\ mgr'.tokenExpiry = NullDate
             /\ (Failed(c) /\ NoOtherInFlight(c)) =>
                   \A x \in CallIds : calls'[x].pc # "inflight"
             /\ (Made(c) /\ mgr.accessToken = Null) =>
                   calls'[c].pc = "inflight" /\ issued' = issued + 1
             /\ (calls[c].pc = "inflight" /\ calls'[c].pc = "fetched") =>
                   /\ calls'[c].result # Null
                   /\ mgr'.accessToken = calls'[c].result
                   /\ stored'.expires_in \in ExpiresIn
                   /\ mgr'.tokenExpiry = now + stored'.expires_in * 1000
       /\ (mgr.accessToken = Null /\ \A x \in CallIds : calls[x].pc # "inflight") =>
             mgr'.accessToken = Null
      ]_vars

\* C18 witness: the only call made so far that failed was followed by a call
\* whose exchange succeeded, and its token is the cached one.
C18_Witness ==
    /\ lastOp.op = "refreshOk"
    /\ calls[1].pc = "failed"
    /\ calls[2].pc = "fetched"
    /\ \A x \in CallIds \ {1, 2} : calls[x].pc = "idle"
    /\ burned = {}
    /\ mgr.accessToken = calls[2].result
    /\ mgr.tokenExpiry = now + stored.expires_in * 1000

\* C19: a token whose lifetime does not exceed the 60 s buffer is never
\* served from the cache.  While the cached token is one that was answered
\* with expires_in <= 60, every getAccessToken() call sends a new exchange;
\* a call is served from the cache only a token answered with expires_in
\* above 60; so such a token reaches only the call whose exchange fetched it.
C19_ShortLivedNeverCached ==
    /\ [](mgr.accessToken # Null =>
             mgr.tokenExpiry = stored.at + stored.expires_in * 1000)
    /\ [][\A c \in CallIds :
             /\ (Made(c) /\ mgr.accessToken # Null /\ stored.expires_in <= 60) =>
                   /\ calls'[c].pc = "inflight"
                   /\ issued' = issued + 1
             /\ (Made(c) /\ calls'[c].pc = "cached") =>
                   /\ calls'[c].result = mgr.accessToken
                   /\ stored.expires_in > 60
                   /\ \E d \in CallIds \ {c} :
                         calls[d].pc = "fetched" /\ calls[d].result = calls'[c].result
         ]_vars

\* C19 witness: a token answered with expires_in = 60 is the cached one, and
\* a call made at the very instant it was stored has sent a new exchange.
C19_Witness ==
    /\ lastOp.op = "getRefresh"
    /\ mgr.accessToken # Null
    /\ stored.expires_in = 60
    /\ now = stored.at
    /\ \E c \in CallIds : calls[c].pc = "fetched" /\ calls[c].result = mgr.accessToken

(***************************************************************************)
(* SpecEnv: the environment is set, and managers are constructed or        *)
(* discovered.                                                             *)
(***************************************************************************)
EnvNames ==
    {"TAILSCALE_OAUTH_CLIENT_ID", "TAILSCALE_OAUTH_CLIENT_SECRET",
     "TAILSCALE_API_BASE_URL"}

\* A variable is unset, set to the empty string, or set to a value.
EnvValues == {Undefined, "", "from-env"}

\* What a caller may put under each key of an OAuthConfig.
ConfigValues == {Absent, Undefined, "", "given"}

Configs ==
    [clientId : ConfigValues, clientSecret : ConfigValues,
     baseUrl : {Absent, Undefined, "https://custom.tailscale.com"}]

InitEnv == InitOAuth /\ InitEnvIdle /\ InitValidateIdle

SetEnv ==
    /\ \E k \in EnvNames, v \in EnvValues :
          /\ env[k] # v
          /\ env' = [env EXCEPT ![k] = v]
    /\ made' = NothingMade
    /\ UNCHANGED <<mgr, now, calls, issued, stored, burned, lastOp, hist, validateVars>>

Construct ==
    /\ \E config \in Configs :
          made' = [op |-> "new", arg |-> config, got |-> constructor(config)]
    /\ UNCHANGED <<mgr, now, calls, issued, stored, burned, lastOp, hist, env, validateVars>>

IsConfigured ==
    /\ made' = [op |-> "isConfigured", arg |-> NoConfig,
                got |-> ReturnedBool(isConfigured(env))]
    /\ UNCHANGED <<mgr, now, calls, issued, stored, burned, lastOp, hist, env, validateVars>>

FromEnvironment ==
    /\ made' = [op |-> "fromEnvironment", arg |-> NoConfig,
                got |-> fromEnvironment(env)]
    /\ UNCHANGED <<mgr, now, calls, issued, stored, burned, lastOp, hist, env, validateVars>>

NextEnv ==
    \/ SetEnv
    \/ Construct
    \/ IsConfigured
    \/ FromEnvironment

SpecEnv == InitEnv /\ [][NextEnv]_vars

\* A value that is present and not the empty string.
NonEmpty(v) == v \notin {Absent, Undefined, Null, ""}

\* C5: constructing a manager fails, with the one authentication error and
\* no manager, when clientId or clientSecret is empty or missing, and
\* succeeds otherwise; a manager built without a baseUrl has the default
\* base URL https://api.tailscale.com.
C5_ConstructorContract ==
    made.op = "new" =>
        LET supplied == made.arg.baseUrl \notin {Absent, Undefined}
            complete == NonEmpty(made.arg.clientId) /\ NonEmpty(made.arg.clientSecret)
        IN /\ made.got.kind = (IF complete THEN "manager" ELSE "throw")
           /\ ~complete => made.got.error = [name |-> "Error", message |-> RequiredMessage]
           /\ (complete /\ ~supplied) =>
                 made.got.manager.config.baseUrl = "https://api.tailscale.com"
           /\ (complete /\ supplied) =>
                 made.got.manager.config.baseUrl = made.arg.baseUrl

\* C6: isConfigured() is true exactly when both the client id and the client
\* secret variables are set and non-empty; fromEnvironment() returns a
\* manager exactly then, and null (never an error) otherwise.
C6_Discovery ==
    LET both == /\ NonEmpty(env.TAILSCALE_OAUTH_CLIENT_ID)
                /\ NonEmpty(env.TAILSCALE_OAUTH_CLIENT_SECRET)
    IN /\ made.op = "isConfigured" =>
             made.got.kind = "bool" /\ made.got.value = both
       /\ made.op = "fromEnvironment" =>
             /\ made.got.kind = (IF both THEN "manager" ELSE "null")
             /\ (made.got.kind = "manager") = isConfigured(env)
             /\ made.got.kind = "manager" =>
                   /\ made.got.manager.config.clientId = env.TAILSCALE_OAUTH_CLIENT_ID
                   /\ made.got.manager.config.clientSecret = env.TAILSCALE_OAUTH_CLIENT_SECRET
                   /\ made.got.manager.accessToken = Null

\* C6 witness: the client id is set but empty and the secret is set, and
\* fromEnvironment() has answered null.
C6_Witness ==
    /\ made.op = "fromEnvironment"
    /\ made.got.kind = "null"
    /\ env.TAILSCALE_OAUTH_CLIENT_ID = ""
    /\ env.TAILSCALE_OAUTH_CLIENT_SECRET = "from-env"

(***************************************************************************)
(* Validators (src/src/utils.ts).  A JavaScript string is the sequence of  *)
(* its characters, each a one-character string.                            *)
(***************************************************************************)
Digits == {"0", "1", "2", "3", "4", "5", "6", "7", "8", "9"}

OctalDigits == {"0", "1", "2", "3", "4", "5", "6", "7"}

HexLetters == {"a", "b", "c", "d", "e", "f", "A", "B", "C", "D", "E", "F"}

Letters ==
    {"a", "b", "c", "d", "e", "f", "g", "h", "i", "j", "k", "l", "m", "n",
     "o", "p", "q", "r", "s", "t", "u", "v", "w", "x", "y", "z",
     "A", "B", "C", "D", "E", "F", "G", "H", "I", "J", "K", "L", "M", "N",
     "O", "P", "Q", "R", "S", "T", "U", "V", "W", "X", "Y", "Z"}

HexDigits == Digits \cup HexLetters

AlphaNum == Digits \cup Letters

\* The numeric value of a hexadecimal digit.
DigitValue(c) ==
    CASE c = "0" -> 0 [] c = "1" -> 1 [] c = "2" -> 2 [] c = "3" -> 3
      [] c = "4" -> 4 [] c = "5" -> 5 [] c = "6" -> 6 [] c = "7" -> 7
      [] c = "8" -> 8 [] c = "9" -> 9
      [] c \in {"a", "A"} -> 10 [] c \in {"b", "B"} -> 11
      [] c \in {"c", "C"} -> 12 [] c \in {"d", "D"} -> 13
      [] c \in {"e", "E"} -> 14 [] c \in {"f", "F"} -> 15

\* String.prototype.includes for a one-character needle.
includes(s, c) == \E i \in 1..Len(s) : s[i] = c

\* String.prototype.includes for the two-character needle a b.
includes2(s, a, b) == \E i \in 1..(Len(s) - 1) : s[i] = a /\ s[i + 1] = b

\* String.prototype.startsWith for a one-character prefix.
startsWith(s, c) == Len(s) >= 1 /\ s[1] = c

\* The JavaScript string a character sequence stands for (for messages).
RECURSIVE Text(_)
Text(s) ==
    IF s = <<>> THEN ""
    ELSE IF Len(s) = 1 THEN s[1]
    ELSE LET mid == Len(s) \div 2
         IN Text(SubSeq(s, 1, mid)) \o Text(SubSeq(s, mid + 1, Len(s)))

\* String.prototype.split for a one-character separator.
split(s, sep) ==
    LET seps == {i \in 1..Len(s) : s[i] = sep}
        n == Cardinality(seps)
        \* the position of the k-th separator; 0 and Len(s) + 1 fence the ends
        cut(k) == IF k = 0 THEN 0
                  ELSE IF k > n THEN Len(s) + 1
                  ELSE CHOOSE i \in seps : Cardinality({j \in seps : j <= i}) = k
    IN [k \in 1..(n + 1) |-> SubSeq(s, cut(k - 1) + 1, cut(k) - 1)]

\* Position of the first / last occurrence of character c in s, 0 if none.
indexOf(s, c) ==
    IF includes(s, c) THEN CHOOSE i \in 1..Len(s) :
                                s[i] = c /\ \A j \in 1..(i - 1) : s[j] # c
    ELSE 0

lastIndexOf(s, c) ==
    IF includes(s, c) THEN CHOOSE i \in 1..Len(s) :
                                s[i] = c /\ \A j \in (i + 1)..Len(s) : s[j] # c
    ELSE 0

AllIn(s, set) == \A i \in 1..Len(s) : s[i] \in set

(***************************************************************************)
(* Regular expressions of utils.ts, run as automata over the characters.   *)
(* A run over s[lo..hi] is the run over its second half started where the  *)
(* run over its first half ends; nothing leaves the state "dead".          *)
(***************************************************************************)
\* VALID_HOSTNAME_PATTERN, lines 9-10.  States: "start" (a label must
\* begin), "alnum" (inside a label, last character a letter or digit),
\* "hyphen" (inside a label, last character a hyphen), "dead".
HostnameStep(q, c) ==
    CASE q = "start" -> IF c \in AlphaNum THEN "alnum" ELSE "dead"
      [] q = "alnum" -> IF c \in AlphaNum THEN "alnum"
                        ELSE IF c = "-" THEN "hyphen"
                        ELSE IF c = "." THEN "start"
                        ELSE "dead"
      [] q = "hyphen" -> IF c \in AlphaNum THEN "alnum"
                         ELSE IF c = "-" THEN "hyphen"
                         ELSE "dead"
      [] OTHER -> "dead"

RECURSIVE HostnameRun(_, _, _, _)
HostnameRun(s, lo, hi, q) ==
    IF lo > hi THEN q
    ELSE IF lo = hi THEN HostnameStep(q, s[lo])
    ELSE LET mid == (lo + hi) \div 2
             left == HostnameRun(s, lo, mid, q)
         IN IF left = "dead" THEN "dead" ELSE HostnameRun(s, mid + 1, hi, left)

VALID_HOSTNAME_PATTERN(s) == HostnameRun(s, 1, Len(s), "start") = "alnum"

\* /^\d+(\.\d+)*$/, line 121.  States: "start" (a digit group must begin),
\* "digit" (inside a digit group), "dead".
LooksStep(q, c) ==
    CASE q = "start" -> IF c \in Digits THEN "digit" ELSE "dead"
      [] q = "digit" -> IF c \in Digits THEN "digit"
                        ELSE IF c = "." THEN "start"
                        ELSE "dead"
      [] OTHER -> "dead"

RECURSIVE LooksRun(_, _, _, _)
LooksRun(s, lo, hi, q) ==
    IF lo > hi THEN q
    ELSE IF lo = hi THEN LooksStep(q, s[lo])
    ELSE LET mid == (lo + hi) \div 2
             left == LooksRun(s, lo, mid, q)
         IN IF left = "dead" THEN "dead" ELSE LooksRun(s, mid + 1, hi, left)

looksLikeIPv4(s) == LooksRun(s, 1, Len(s), "start") = "digit"

(***************************************************************************)
(* ipaddr.js, as called by isValidIPAddress and isValidCIDR.  Numbers are  *)
(* kept as hi * 65536 + lo with hi saturating at 65536, which decides      *)
(* every range test the library makes (<= 255, 0xffff, 0xffffff,           *)
(* 0xffffffff) without leaving 32-bit arithmetic.                          *)
(***************************************************************************)
\* A number above 0xffffffff stays above it whatever digits follow.
RECURSIVE ParseFrom(_, _, _, _)
ParseFrom(s, i, base, n) ==
    IF i > Len(s) \/ n.hi > 65535 THEN n
    ELSE LET v == n.lo * base + DigitValue(s[i])
             h == n.hi * base + (v \div 65536)
         IN ParseFrom(s, i + 1, base,
                      [hi |-> IF h > 65535 THEN 65536 ELSE h, lo |-> v % 65536])

\* parseInt(s, base) of a non-empty string of digits of that base; leading
\* zeros add nothing to the value.
parseInt(s, base) ==
    LET significant == {i \in 1..Len(s) : s[i] # "0"}
        first == IF significant = {} THEN Len(s) + 1
                 ELSE CHOOSE i \in significant : \A j \in significant : i <= j
    IN ParseFrom(s, first, base, [hi |-> 0, lo |-> 0])

AtMost255(n) == n.hi = 0 /\ n.lo <= 255

\* ipv4Part: (0?\d+|0x[a-f0-9]+), case-insensitive.
IsHexPart(p) ==
    /\ Len(p) >= 3
    /\ p[1] = "0"
    /\ p[2] \in {"x", "X"}
    /\ AllIn(SubSeq(p, 3, Len(p)), HexDigits)

IsDecPart(p) == Len(p) >= 1 /\ AllIn(p, Digits)

IsV4Part(p) == IsDecPart(p) \/ IsHexPart(p)

\* parseIntAuto throws on a leading-zero part that is not octal.
parseIntAutoThrows(p) ==
    /\ ~IsHexPart(p)
    /\ Len(p) >= 2 /\ p[1] = "0" /\ p[2] \in Digits
    /\ ~AllIn(Tail(p), OctalDigits)

parseIntAuto(p) ==
    IF IsHexPart(p) THEN parseInt(SubSeq(p, 3, Len(p)), 16)
    ELSE IF Len(p) >= 2 /\ p[1] = "0" /\ p[2] \in Digits THEN parseInt(p, 8)
    ELSE parseInt(p, 10)

\* The largest value of the last part of an IPv4 literal of n parts, as the
\* number of 16-bit halves it may fill: four parts <= 255, three <= 0xffff,
\* two <= 0xffffff, one <= 0xffffffff.
LastPartFits(n, v) ==
    CASE n = 4 -> AtMost255(v)
      [] n = 3 -> v.hi = 0
      [] n = 2 -> v.hi <= 255
      [] OTHER -> v.hi <= 65535

\* ipaddr.IPv4.isValid: IPv4.parser followed by the IPv4 constructor.
IPv4IsValid(s) ==
    LET parts == split(s, ".")
        n == Len(parts)
    IN /\ n \in 1..4
       /\ \A i \in 1..n : IsV4Part(parts[i]) /\ ~parseIntAutoThrows(parts[i])
       /\ \A i \in 1..(n - 1) : AtMost255(parseIntAuto(parts[i]))
       /\ LastPartFits(n, parseIntAuto(parts[n]))

\* ipv6Regexes.native, as an automaton over hex digits and colons:
\* ^(::)?((?:[0-9a-f]+::?)+)?([0-9a-f]+)?(::)?$ (the zone index is split
\* off before).  States: "q0" nothing read; "l1", "l2" one / two leading
\* colons; "m3", "m4" three / four colons and no digit; "x" in a hex group;
\* "c1".."c4" that many colons after a hex group.
NativeStep(q, c) ==
    LET hex == c \in HexDigits
        colon == c = ":"
    IN CASE q = "q0" -> IF hex THEN "x" ELSE IF colon THEN "l1" ELSE "dead"
         [] q = "l1" -> IF colon THEN "l2" ELSE "dead"
         [] q = "l2" -> IF hex THEN "x" ELSE IF colon THEN "m3" ELSE "dead"
         [] q = "m3" -> IF colon THEN "m4" ELSE "dead"
         [] q = "x" -> IF hex THEN "x" ELSE IF colon THEN "c1" ELSE "dead"
         [] q = "c1" -> IF hex THEN "x" ELSE IF colon THEN "c2" ELSE "dead"
         [] q = "c2" -> IF hex THEN "x" ELSE IF colon THEN "c3" ELSE "dead"
         [] q = "c3" -> IF colon THEN "c4" ELSE "dead"
         [] OTHER -> "dead"

RECURSIVE NativeRun(_, _, _, _)
NativeRun(s, lo, hi, q) ==
    IF lo > hi THEN q
    ELSE IF lo = hi THEN NativeStep(q, s[lo])
    ELSE LET mid == (lo + hi) \div 2
             left == NativeRun(s, lo, mid, q)
         IN IF left = "dead" THEN "dead" ELSE NativeRun(s, mid + 1, hi, left)

\* A string and its zone index: the text from the first '%' on.
ZoneAt(s) == indexOf(s, "%")

WithoutZone(s) == IF ZoneAt(s) = 0 THEN s ELSE SubSeq(s, 1, ZoneAt(s) - 1)

\* (%[0-9a-z]{1,})?$ : no zone, or '%' followed by letters and digits only.
ZoneOk(s) ==
    \/ ZoneAt(s) = 0
    \/ /\ ZoneAt(s) < Len(s)
       /\ AllIn(SubSeq(s, ZoneAt(s) + 1, Len(s)), AlphaNum)

nativeTest(s) ==
    /\ ZoneOk(s)
    /\ NativeRun(WithoutZone(s), 1, Len(WithoutZone(s)), "q0")
          \in {"q0", "l2", "m4", "x", "c1", "c2", "c3", "c4"}

\* Positions at which "::" occurs.
DoubleColons(s) == {i \in 1..(Len(s) - 1) : s[i] = ":" /\ s[i + 1] = ":"}

ColonCount(s) == Cardinality({i \in 1..Len(s) : s[i] = ":"})

RECURSIVE ZeroGroups(_)
ZeroGroups(n) == IF n <= 0 THEN <<>> ELSE <<"0", ":">> \o ZeroGroups(n - 1)

\* expandIPv6(string, parts) for a string whose zone index is removed: the
\* text pieces between the colons after "::" is filled in, or <<>> where
\* the function returns null.
expandIPv6(s, parts) ==
    LET dc == DoubleColons(s)
        n == Len(s)
        colonCount ==
            ColonCount(s)
            - (IF n >= 2 /\ s[1] = ":" /\ s[2] = ":" THEN 1 ELSE 0)
            - (IF n >= 2 /\ s[n - 1] = ":" /\ s[n] = ":" THEN 1 ELSE 0)
    IN IF Cardinality(dc) > 1 \/ colonCount > parts THEN <<>>
       ELSE LET first == IF dc = {} THEN 0 ELSE CHOOSE i \in dc : \A j \in dc : i <= j
                filled == IF first = 0 THEN s
                          ELSE SubSeq(s, 1, first - 1) \o <<":">>
                               \o ZeroGroups(parts - colonCount)
                               \o SubSeq(s, first + 2, n)
                a == IF filled # <<>> /\ Head(filled) = ":" THEN Tail(filled) ELSE filled
                b == IF a # <<>> /\ a[Len(a)] = ":" THEN SubSeq(a, 1, Len(a) - 1) ELSE a
            IN split(b, ":")

\* The IPv6 constructor's test of one part: parseInt(piece, 16) must be a
\* number in 0..0xffff.
PartOk(piece) ==
    /\ piece # <<>>
    /\ AllIn(piece, HexDigits)
    /\ parseInt(piece, 16).hi = 0

PartsOk(pieces, count) ==
    /\ Len(pieces) = count
    /\ \A i \in 1..Len(pieces) : PartOk(pieces[i])

\* The dotted tail of a transitional address: four ipv4Parts.
IsDottedQuad(t) ==
    LET parts == split(t, ".")
    IN Len(parts) = 4 /\ \A i \in 1..4 : IsV4Part(parts[i])

\* parseInt(part) without a radix: hexadecimal after 0x, else decimal.
OctetOk(p) ==
    AtMost255(IF IsHexPart(p) THEN parseInt(SubSeq(p, 3, Len(p)), 16)
              ELSE parseInt(p, 10))

\* ipv6Regexes.transitional on a string without zone index: a head of hex
\* groups each followed by ':' or '::' (or '::' alone, or '::' and such
\* groups), then a dotted quad.  The result of IPv6.parser for it.
transitionalParses(s) ==
    LET k == lastIndexOf(s, ":")
        head == SubSeq(s, 1, k)
        quad == SubSeq(s, k + 1, Len(s))
        ends2 == k >= 2 /\ s[k - 1] = ":"
        addr == IF ends2 THEN head ELSE SubSeq(head, 1, k - 1)
    IN /\ k > 0
       /\ NativeRun(head, 1, Len(head), "q0") \in {"l2", "c1", "c2"}
       /\ IsDottedQuad(quad)
       /\ PartsOk(expandIPv6(addr, 6), 6)
       /\ \A i \in 1..4 : OctetOk(split(quad, ".")[i])

\* ipaddr.IPv6.parser followed by the IPv6 constructor: does the string
\* parse as an IPv6 address.
IPv6Parses(s) ==
    LET body == WithoutZone(s)
    IN IF /\ ZoneOk(s) /\ Len(body) >= 2 /\ body[1] = ":" /\ body[2] = ":"
          /\ IsDottedQuad(SubSeq(body, 3, Len(body)))
       THEN \* deprecatedTransitional: parsed again as ::ffff:<quad>
            transitionalParses(<<":", ":", "f", "f", "f", "f", ":">>
                               \o SubSeq(body, 3, Len(body)))
       ELSE IF nativeTest(s)
       THEN PartsOk(expandIPv6(body, 8), 8)
       ELSE ZoneOk(s) /\ transitionalParses(body)

\* ipaddr.IPv6.isValid: a string without ':' is rejected at once.
IPv6IsValid(s) == includes(s, ":") /\ IPv6Parses(s)

\* ipaddr.parse succeeds iff one of the two isValid tests does.
isValidIPAddress(s) == IPv6IsValid(s) \/ IPv4IsValid(s)

isValidCIDRAnyPrefix(s) ==
    LET k == lastIndexOf(s, "/")
        ip == SubSeq(s, 1, k - 1)
        prefix == SubSeq(s, k + 1, Len(s))
    IN k > 1 /\ IsDecPart(prefix) /\ (IPv6Parses(ip) \/ IPv4IsValid(ip))

\* /^(.+)\/(\d+)$/ and the prefix test of IPv6.parseCIDR / IPv4.parseCIDR.
isValidCIDR(s) ==
    LET k == lastIndexOf(s, "/")
        ip == SubSeq(s, 1, k - 1)
        prefix == SubSeq(s, k + 1, Len(s))
    IN /\ k > 1
       /\ IsDecPart(prefix)
       /\ LET maskLength == parseInt(prefix, 10)
          IN \/ maskLength.hi = 0 /\ maskLength.lo <= 128 /\ IPv6Parses(ip)
             \/ maskLength.hi = 0 /\ maskLength.lo <= 32 /\ IPv4IsValid(ip)

(***************************************************************************)
(* JavaScript values handed to the validators, and what a validator does.  *)
(***************************************************************************)
Str(chars) == [t |-> "string", s |-> chars, items |-> <<>>]

Arr(items) == [t |-> "array", s |-> <<>>, items |-> items]

Other(type) == [t |-> type, s |-> <<>>, items |-> <<>>]

\* The function returned normally, through the return path named by via.
Returns(via) == [ok |-> TRUE, name |-> "", message |-> "", via |-> via]

\* A predicate returned the boolean b.
Answers(b) == [ok |-> b, name |-> "", message |-> "", via |-> "value"]

\* The function threw new <name>(message) at the check named by via.
Throws(name, message, via) ==
    [ok |-> FALSE, name |-> name, message |-> message, via |-> via]

\* The grave accent, U+0060.  The parser gives that character a meaning of
\* its own inside string literals, so the model names it.
GraveAccent == "<grave accent>"

DANGEROUS_CHARS ==
    <<";", "&", "|", GraveAccent, "$", "(", ")", "{", "}", "[", "]", "<", ">",
      "\\", "'", "\"">>

DANGEROUS_CHARS_BASIC ==
    <<";", "&", "|", GraveAccent, "$", "(", ")", "{", "}", "<", ">", "\\">>

\* for (const char of list) if (s.includes(char)) throw ...: the index of
\* the first entry of the list that occurs in s, 0 if none does.
firstListed(list, s) ==
    IF \E i \in 1..Len(list) : includes(s, list[i])
    THEN CHOOSE i \in 1..Len(list) :
            /\ includes(s, list[i])
            /\ \A j \in 1..(i - 1) : ~includes(s, list[j])
    ELSE 0

MaxTargetLength == 253

MaxInputLength == 1000

\* Line 103.
pathGuard(s) == includes2(s, ".", ".") \/ startsWith(s, "/") \/ includes(s, "~")

\* Line 108.
targetTooLongOffByOne(s) == Len(s) >= MaxTargetLength

targetTooLong(s) == Len(s) > MaxTargetLength

\* Lines 113-135: the target must be an IP address or a hostname.
formatCheckNoShape(s) ==
    IF isValidIPAddress(s) THEN Returns("ip")
    ELSE IF ~VALID_HOSTNAME_PATTERN(s)
    THEN Throws("Error", "Target must be a valid IP address or hostname", "hostname")
    ELSE Returns("hostname")

formatCheck(s) ==
    IF isValidIPAddress(s) THEN Returns("ip")
    ELSE IF looksLikeIPv4(s)
    THEN Throws("Error", "Invalid IPv4 address format", "ipv4-shape")
    ELSE IF includes(s, ":")
    THEN Throws("Error", "Invalid IPv6 address format", "ipv6-shape")
    ELSE IF ~VALID_HOSTNAME_PATTERN(s)
    THEN Throws("Error", "Target must be a valid IP address or hostname", "hostname")
    ELSE Returns("hostname")

\* The loop of lines 96-100 over a given list.
dangerCheckBasicOnly(s) == firstListed(DANGEROUS_CHARS_BASIC, s)

dangerCheck(s) == firstListed(DANGEROUS_CHARS, s)

\* validateTarget, lines 91-136.
validateTarget(target) ==
    IF target.t # "string" \/ target.s = <<>>
    THEN Throws("Error", "Invalid target specified", "empty")
    ELSE IF dangerCheck(target.s) # 0
    THEN Throws("Error",
                "Invalid character '" \o DANGEROUS_CHARS[dangerCheck(target.s)]
                    \o "' in target",
                "dangerous")
    ELSE IF pathGuard(target.s)
    THEN Throws("Error", "Target contains invalid characters or format", "path")
    ELSE IF targetTooLong(target.s)
    THEN Throws("Error", "Target too long", "length")
    ELSE formatCheck(target.s)

\* Line 151.
inputTooLongOffByOne(s) == Len(s) >= MaxInputLength

inputTooLong(s) == Len(s) > MaxInputLength

\* validateStringInput, lines 138-154.
validateStringInput(in, fieldName) ==
    IF in.t # "string"
    THEN Throws("TypeError", fieldName \o " must be a string", "type")
    ELSE IF firstListed(DANGEROUS_CHARS_BASIC, in.s) # 0
    THEN Throws("Error",
                "Invalid character '"
                    \o DANGEROUS_CHARS_BASIC[firstListed(DANGEROUS_CHARS_BASIC, in.s)]
                    \o "' in " \o fieldName,
                "dangerous")
    ELSE IF inputTooLong(in.s)
    THEN Throws("Error", fieldName \o " too long", "length")
    ELSE Returns("end")

\* The loop of validateRoutes, lines 161-175, from element i on.
RECURSIVE routesLoop(_, _, _)
routesLoop(items, i, last) ==
    IF i > last THEN Returns("end")
    ELSE IF items[i].t # "string"
    THEN Throws("TypeError", "Each route must be a string", "element-type")
    ELSE IF ~isValidCIDR(items[i].s)
    THEN Throws("Error", "Invalid CIDR format: " \o Text(items[i].s), "cidr")
    ELSE routesLoop(items, i + 1, last)

routesToCheckButLast(items) == Len(items) - 1

routesToCheck(items) == Len(items)

validateRoutesNoTypeCheck(routes) ==
    routesLoop(routes.items, 1, routesToCheck(routes.items))

\* validateRoutes, lines 156-176.
validateRoutes(routes) ==
    IF routes.t # "array"
    THEN Throws("TypeError", "Routes must be an array", "type")
    ELSE routesLoop(routes.items, 1, routesToCheck(routes.items))

(***************************************************************************)
(* The validators applied to bounded inputs.                               *)
(***************************************************************************)
MaxLen == 3

MaxRoutes == 3

\* Characters the short inputs are made of: they reach every branch of the
\* validators (digits, a letter, the hyphen, the separators of addresses and
\* paths, a character of the basic list and one of the full list only).
Alphabet == {"0", "9", "a", "-", ".", ":", "/", "~", ";", "["}

RECURSIVE StringsUpTo(_)
StringsUpTo(n) ==
    IF n = 0 THEN {<<>>}
    ELSE LET shorter == StringsUpTo(n - 1)
         IN shorter \cup {Append(t, c) : t \in shorter, c \in Alphabet}

ShortStrings == {Str(t) : t \in StringsUpTo(MaxLen)}

\* One input for every listed character.
InjectedStrings == {Str(<<"a", DANGEROUS_CHARS[i]>>) : i \in 1..Len(DANGEROUS_CHARS)}

\* n times the character c.
Repeat(c, n) == SubSeq([i \in 1..n |-> c], 1, n)

\* Inputs at and just beyond the two length limits.
LongStrings ==
    {Str(Repeat("a", n)) : n \in {MaxTargetLength, MaxTargetLength + 1,
                                  MaxInputLength, MaxInputLength + 1}}

\* The targets of validation.test.ts and relatives of them.
KnownTargets ==
    {Str(<<"1", "9", "2", ".", "1", "6", "8", ".", "1", ".", "1">>),
     Str(<<"1", "0", ".", "0", ".", "0", ".", "1">>),
     Str(<<"9", "9", "9", ".", "9", "9", "9", ".", "9", "9", "9", ".", "9", "9", "9">>),
     Str(<<"2", "5", "6", ".", "1", ".", "1", ".", "1">>),
     Str(<<"1", ".", "2", ".", "3", ".", "4", ".", "5">>),
     Str(<<"0", "x", "7", "f", ".", "1">>),
     Str(<<"2", "0", "0", "1", ":", "d", "b", "8", ":", ":", "1">>),
     Str(<<":", ":", "1">>),
     Str(<<"g", "g", "g", "g", ":", ":", "1">>),
     Str(<<"1", ":", "2", ":", "3", ":", "4", ":", "5", ":", "6", ":", "7", ":", "8", ":", "9">>),
     Str(<<":", ":", "f", "f", "f", "f", ":", "1", ".", "2", ".", "3", ".", "4">>),
     Str(<<"f", "e", "8", "0", ":", ":", "1", "%", "e", "t", "h", "0">>),
     Str(<<"e", "x", "a", "m", "p", "l", "e", ".", "c", "o", "m">>),
     Str(<<"m", "y", "-", "s", "e", "r", "v", "e", "r">>),
     Str(<<"s", "e", "r", "v", "e", "r", "1", "2", "3">>),
     Str(<<"-", "b", "a", "d", ".", "e", "x", "a", "m", "p", "l", "e">>),
     Str(<<"b", "a", "d", "-", ".", "e", "x", "a", "m", "p", "l", "e">>),
     Str(<<"h", "o", "s", "t", ";", "r", "m", " ", "-", "r", "f", " ", "/">>),
     Str(<<"h", "o", "s", "t", "|", "c", "a", "t", " ", "/", "e", "t", "c", "/", "p", "a", "s", "s", "w", "d">>),
     Str(<<".", ".", "/", "e", "t", "c", "/", "p", "a", "s", "s", "w", "d">>),
     Str(<<"/", "e", "t", "c", "/", "p", "a", "s", "s", "w", "d">>),
     Str(<<"~", "/", ".", "s", "s", "h", "/", "i", "d", "_", "r", "s", "a">>)}

\* Values that are not strings, by their typeof / Array.isArray class.
NonStrings == {Other("undefined"), Other("null"), Other("number"), Arr(<<>>)}

StringInputs ==
    ShortStrings \cup InjectedStrings \cup LongStrings \cup KnownTargets \cup NonStrings

FieldNames == {"hostname", "tag"}

\* Route strings arrays are built of: two valid ones, a prefix out of range
\* and an address without prefix.
RouteStrings ==
    {Str(<<"1", "0", ".", "0", ".", "0", ".", "0", "/", "8">>),
     Str(<<"2", "0", "0", "1", ":", "d", "b", "8", ":", ":", "/", "3", "2">>),
     Str(<<"1", "0", ".", "0", ".", "0", ".", "0", "/", "3", "3">>),
     Str(<<"1", "0", ".", "0", ".", "0", ".", "0">>)}

RouteElements == RouteStrings \cup {Other("number")}

RECURSIVE ArraysUpTo(_)
ArraysUpTo(n) ==
    IF n = 0 THEN {<<>>}
    ELSE LET shorter == ArraysUpTo(n - 1)
         IN shorter \cup {Append(t, r) : t \in shorter, r \in RouteElements}

\* Further routes of validation.test.ts and relatives, checked one by one.
KnownRoutes ==
    {Str(<<"1", "9", "2", ".", "1", "6", "8", ".", "0", ".", "0", "/", "1", "6">>),
     Str(<<"1", "7", "2", ".", "1", "6", ".", "0", ".", "0", "/", "1", "2">>),
     Str(<<"0", ".", "0", ".", "0", ".", "0", "/", "0">>),
     Str(<<":", ":", "/", "0">>),
     Str(<<"9", "9", "9", ".", "9", "9", "9", ".", "9", "9", "9", ".", "9", "9", "9", "/", "3", "2">>),
     Str(<<"2", "0", "0", "1", ":", "d", "b", "8", ":", ":", "/", "1", "2", "9">>),
     Str(<<"1", "0", ".", "0", ".", "0", ".", "0", "/", "0", "8">>),
     Str(<<"/", "8">>),
     Str(<<"1", "0", ".", "0", ".", "0", ".", "0", "/">>),
     Str(<<"1", "/", "8">>)}

RouteInputs ==
    {Arr(t) : t \in ArraysUpTo(MaxRoutes)}
        \cup {Arr(<<r>>) : r \in KnownRoutes}
        \cup {Str(<<"1", "0", ".", "0", ".", "0", ".", "0", "/", "8">>),
              Other("undefined"), Other("null"), Other("object")}

\* Addresses and prefixes that CIDR strings are put together of.
CidrAddresses ==
    {<<"1", "0", ".", "0", ".", "0", ".", "0">>,
     <<"1", "9", "2", ".", "1", "6", "8", ".", "1", ".", "1">>,
     <<"1">>,
     <<"0", "x", "7", "f", ".", "1">>,
     <<":", ":">>,
     <<"2", "0", "0", "1", ":", "d", "b", "8", ":", ":">>,
     <<":", ":", "f", "f", "f", "f", ":", "1", ".", "2", ".", "3", ".", "4">>,
     <<"f", "e", "8", "0", ":", ":", "1", "%", "e", "t", "h", "0">>,
     <<"9", "9", "9", ".", "9", "9", "9", ".", "9", "9", "9", ".", "9", "9", "9">>,
     <<"2", "5", "6", ".", "1", ".", "1", ".", "1">>,
     <<"1", ".", "2", ".", "3", ".", "4", ".", "5">>,
     <<"g", "g", "g", "g", ":", ":">>,
     <<"1", "0", ".", "0", ".", "0">>,
     <<"a", "b", "c", "d">>}

CidrPrefixes ==
    {<<"0">>,
     <<"8">>,
     <<"3", "2">>,
     <<"3", "3">>,
     <<"1", "2", "8">>,
     <<"1", "2", "9">>,
     <<"0", "8">>,
     <<"4", "2", "9", "4", "9", "6", "7", "3", "2", "8">>,
     <<>>,
     <<"-", "1">>,
     <<"a">>}

CidrInputs ==
    {Str(ip \o <<"/">> \o prefix) : ip \in CidrAddresses, prefix \in CidrPrefixes}
        \cup {Str(ip) : ip \in CidrAddresses}
        \cup {Str(<<"/">> \o prefix) : prefix \in CidrPrefixes}

Inputs == StringInputs \cup RouteInputs \cup CidrInputs

NoOutcome == [op |-> "none", field |-> "", got |-> Returns("none")]

\* Each behaviour is one call of one validator on one input.
InitValidate ==
    /\ InitOAuth
    /\ InitEnvIdle
    /\ input \in Inputs
    /\ outcome = NoOutcome

ValidateTarget ==
    /\ outcome.op = "none"
    /\ outcome' = [op |-> "validateTarget", field |-> "",
                   got |-> validateTarget(input)]
    /\ UNCHANGED <<mgr, now, calls, issued, stored, burned, lastOp, hist, envVars, input>>

ValidateStringInput ==
    /\ outcome.op = "none"
    /\ \E fieldName \in FieldNames :
          outcome' = [op |-> "validateStringInput", field |-> fieldName,
                      got |-> validateStringInput(input, fieldName)]
    /\ UNCHANGED <<mgr, now, calls, issued, stored, burned, lastOp, hist, envVars, input>>

ValidateRoutes ==
    /\ outcome.op = "none"
    /\ outcome' = [op |-> "validateRoutes", field |-> "",
                   got |-> validateRoutes(input)]
    /\ UNCHANGED <<mgr, now, calls, issued, stored, burned, lastOp, hist, envVars, input>>

\* isValidCIDR(input): a value that is no string makes ipaddr.parseCIDR
\* throw, which the catch branch turns into false.
IsValidCIDR ==
    /\ outcome.op = "none"
    /\ outcome' = [op |-> "isValidCIDR", field |-> "",
                   got |-> Answers(input.t = "string" /\ isValidCIDR(input.s))]
    /\ UNCHANGED <<mgr, now, calls, issued, stored, burned, lastOp, hist, envVars, input>>

NextValidate ==
    ValidateTarget \/ ValidateStringInput \/ ValidateRoutes \/ IsValidCIDR

SpecValidate == InitValidate /\ [][NextValidate]_vars

(***************************************************************************)
(* Claims about the validators, checked under SpecValidate.  What a claim  *)
(* says of an input is stated here apart from the validators' own code.    *)
(***************************************************************************)
DangerousSet ==
    {";", "&", "|", GraveAccent, "$", "(", ")", "{", "}", "[", "]", "<", ">",
     "\\", "'", "\""}

BasicDangerousSet == DangerousSet \ {"[", "]", "'", "\""}

IsString(v) == v.t = "string"

Occurring(s, set) == {c \in set : includes(s, c)}

NamesOneOf(message, chars, where) ==
    \E c \in chars : message = "Invalid character '" \o c \o "' in " \o where

DigitsAndDots(s) == s # <<>> /\ AllIn(s, Digits \cup {"."})

LooksLikeAddress(s) == DigitsAndDots(s) \/ includes(s, ":")

\* The guards that come before the format checks of validateTarget.
PassesGuards(s) ==
    /\ Occurring(s, DangerousSet) = {}
    /\ ~includes2(s, ".", ".")
    /\ ~startsWith(s, "/")
    /\ ~includes(s, "~")
    /\ Len(s) <= 253

HostnameLabel(l) ==
    /\ l # <<>>
    /\ AllIn(l, AlphaNum \cup {"-"})
    /\ Head(l) # "-"
    /\ l[Len(l)] # "-"

\* Dot-separated non-empty labels of letters, digits and hyphens, no label
\* starting or ending with a hyphen.
HostnameGrammar(s) ==
    LET labels == split(s, ".")
    IN \A i \in 1..Len(labels) : HostnameLabel(labels[i])

CalledTarget == outcome.op = "validateTarget"

CalledStringInput == outcome.op = "validateStringInput"

CalledRoutes == outcome.op = "validateRoutes"

\* C7 as stated: every string containing a character of the dangerous set
\* { ; & | grave-accent $ ( ) { } [ ] < > \ ' " } is rejected by both
\* validateTarget and validateStringInput, with a message naming a dangerous
\* character that occurs in it.
C7_DangerousRejectedByBoth ==
    ((CalledTarget \/ CalledStringInput) /\ IsString(input)
        /\ Occurring(input.s, DangerousSet) # {}) =>
        /\ ~outcome.got.ok
        /\ NamesOneOf(outcome.got.message, Occurring(input.s, DangerousSet),
                      IF CalledTarget THEN "target" ELSE outcome.field)

\* C7, amended: validateTarget rejects every string containing a character
\* of the dangerous set, naming one that occurs in it; validateStringInput
\* does so for the twelve basic characters (the set without [ ] ' "), and a
\* string without basic characters is accepted by it exactly when it has at
\* most 1000 characters, whatever else it contains.
C7_DangerousRejected ==
    /\ (CalledTarget /\ IsString(input) /\ Occurring(input.s, DangerousSet) # {}) =>
          /\ ~outcome.got.ok
          /\ outcome.got.name = "Error"
          /\ NamesOneOf(outcome.got.message, Occurring(input.s, DangerousSet), "target")
    /\ (CalledStringInput /\ IsString(input)
            /\ Occurring(input.s, BasicDangerousSet) # {}) =>
          /\ ~outcome.got.ok
          /\ outcome.got.name = "Error"
          /\ NamesOneOf(outcome.got.message, Occurring(input.s, BasicDangerousSet),
                        outcome.field)
    /\ (CalledStringInput /\ IsString(input)
            /\ Occurring(input.s, BasicDangerousSet) = {}) =>
          outcome.got.ok = (Len(input.s) <= 1000)

\* C7 witness: validateTarget has rejected a string whose only dangerous
\* character is one of [ ] ' ", naming it.
C7_Witness ==
    /\ CalledTarget
    /\ IsString(input)
    /\ Occurring(input.s, BasicDangerousSet) = {}
    /\ Occurring(input.s, DangerousSet) # {}
    /\ outcome.got.via = "dangerous"
    /\ ~outcome.got.ok

C9_TargetAcceptedIff ==
    CalledTarget =>
        outcome.got.ok =
            (/\ IsString(input)
             /\ input.s # <<>>
             /\ PassesGuards(input.s)
             /\ (isValidIPAddress(input.s) \/ HostnameGrammar(input.s)))

\* C9, amended: validateTarget(s) succeeds if and only if s is a non-empty
\* string without dangerous character, without '..', not starting with '/',
\* without '~', of at most 253 characters, and either a valid IP literal or
\* a hostname by the label grammar that does not consist of digits and dots
\* only; in every other case it fails with an Error.
C9_TargetAcceptedIffNotNumeric ==
    CalledTarget =>
        /\ outcome.got.ok =
              (/\ IsString(input)
               /\ input.s # <<>>
               /\ PassesGuards(input.s)
               /\ \/ isValidIPAddress(input.s)
                  \/ HostnameGrammar(input.s) /\ ~DigitsAndDots(input.s))
        /\ ~outcome.got.ok => outcome.got.name = "Error"

\* C9 witness: a string of digit labels that the label grammar admits and
\* that is no IP address has been rejected as an invalid IPv4 address.
C9_Witness ==
    /\ CalledTarget
    /\ IsString(input)
    /\ DigitsAndDots(input.s)
    /\ HostnameGrammar(input.s)
    /\ PassesGuards(input.s)
    /\ ~outcome.got.ok
    /\ outcome.got.message = "Invalid IPv4 address format"

\* C10: validateRoutes(routes) succeeds if and only if routes is an array
\* whose every element is a string for which isValidCIDR holds (the empty
\* array succeeds); an invalid element at any position, the last included,
\* fails the call.
C10_RoutesAllChecked ==
    CalledRoutes =>
        /\ outcome.got.ok =
              (/\ input.t = "array"
               /\ \A i \in 1..Len(input.items) :
                     IsString(input.items[i]) /\ isValidCIDR(input.items[i].s))
        /\ (input.t = "array" /\ input.items = <<>>) => outcome.got.ok
        /\ ~outcome.got.ok => outcome.got.name \in {"Error", "TypeError"}

\* C10 witness: an array of several routes of which only the last is not a
\* valid CIDR has been rejected for it.
C10_Witness ==
    /\ CalledRoutes
    /\ input.t = "array"
    /\ Len(input.items) >= 2
    /\ \A i \in 1..(Len(input.items) - 1) :
          IsString(input.items[i]) /\ isValidCIDR(input.items[i].s)
    /\ IsString(input.items[Len(input.items)])
    /\ ~isValidCIDR(input.items[Len(input.items)].s)
    /\ ~outcome.got.ok
    /\ outcome.got.via = "cidr"

\* Element i of a route array is one validateRoutes must reject.
Offending(items, i) == ~IsString(items[i]) \/ ~isValidCIDR(items[i].s)

\* The position of the first such element, 0 if there is none.
FirstOffending(items) ==
    IF \E i \in 1..Len(items) : Offending(items, i)
    THEN CHOOSE i \in 1..Len(items) :
            Offending(items, i) /\ \A j \in 1..(i - 1) : ~Offending(items, j)
    ELSE 0

\* C11 as stated: a non-array fails with the 'must be an array' message, and
\* an array in which any element is not a string fails with the 'must be a
\* string' message, whatever strings, valid or invalid CIDRs, the array mixes
\* with it and in whatever order.
C11_RoutesFailureKind ==
    CalledRoutes =>
        /\ input.t # "array" =>
              ~outcome.got.ok /\ outcome.got.message = "Routes must be an array"
        /\ (input.t = "array"
                /\ \E i \in 1..Len(input.items) : ~IsString(input.items[i])) =>
              ~outcome.got.ok /\ outcome.got.message = "Each route must be a string"

\* C11, amended: a non-array fails with a TypeError 'Routes must be an
\* array'.  An array fails at its first element that is not a string or not
\* a valid CIDR: with a TypeError 'Each route must be a string' when that
\* element is not a string (the CIDRs of the elements after it are not
\* validated), and with an Error 'Invalid CIDR format: <route>' when it is
\* a string, even if an element after it is not a string.
C11_RoutesFirstFailureKind ==
    CalledRoutes =>
        /\ input.t # "array" =>
              /\ ~outcome.got.ok
              /\ outcome.got.name = "TypeError"
              /\ outcome.got.message = "Routes must be an array"
        /\ (input.t = "array" /\ FirstOffending(input.items) # 0) =>
              LET first == input.items[FirstOffending(input.items)]
              IN /\ ~outcome.got.ok
                 /\ IF IsString(first)
                    THEN /\ outcome.got.name = "Error"
                         /\ outcome.got.message = "Invalid CIDR format: " \o Text(first.s)
                    ELSE /\ outcome.got.name = "TypeError"
                         /\ outcome.got.message = "Each route must be a string"

\* C11 witness: an array of a valid CIDR, then an element that is no string,
\* then an invalid CIDR string has failed with the 'must be a string' message.
C11_Witness ==
    /\ CalledRoutes
    /\ input.t = "array"
    /\ Len(input.items) >= 3
    /\ IsString(input.items[1]) /\ isValidCIDR(input.items[1].s)
    /\ ~IsString(input.items[2])
    /\ IsString(input.items[3]) /\ ~isValidCIDR(input.items[3].s)
    /\ outcome.got.message = "Each route must be a string"

\* C12: validateStringInput(s, fieldName) succeeds if and only if s is a
\* string, the empty one included, that contains none of the twelve basic
\* dangerous characters and has at most 1000 characters; a string of exactly
\* 1000 characters is accepted and one of 1001 is rejected; and every failure
\* message names fieldName.
C12_StringInputAcceptedIff ==
    CalledStringInput =>
        /\ outcome.got.ok =
              (/\ IsString(input)
               /\ Occurring(input.s, BasicDangerousSet) = {}
               /\ Len(input.s) <= 1000)
        /\ (IsString(input) /\ input.s = <<>>) => outcome.got.ok
        /\ (IsString(input) /\ Occurring(input.s, BasicDangerousSet) = {}) =>
              /\ Len(input.s) = 1000 => outcome.got.ok
              /\ Len(input.s) = 1001 => ~outcome.got.ok
        /\ ~outcome.got.ok =>
              \/ outcome.got.message = outcome.field \o " must be a string"
              \/ outcome.got.message = outcome.field \o " too long"
              \/ NamesOneOf(outcome.got.message, BasicDangerousSet, outcome.field)

\* C12 witness: a string of exactly 1000 harmless characters was accepted.
C12_Witness ==
    /\ CalledStringInput
    /\ IsString(input)
    /\ Len(input.s) = 1000
    /\ Occurring(input.s, BasicDangerousSet) = {}
    /\ outcome.got.ok

CalledIsValidCIDR == outcome.op = "isValidCIDR"

\* The text before and after the last '/' of a string that has one.
AddressPart(s) == SubSeq(s, 1, lastIndexOf(s, "/") - 1)

PrefixPart(s) == SubSeq(s, lastIndexOf(s, "/") + 1, Len(s))

\* A prefix written as a decimal integer, and whether it is at most max.
IsInteger(p) == p # <<>> /\ AllIn(p, Digits)

AtMost(p, max) == LET n == parseInt(p, 10) IN n.hi = 0 /\ n.lo <= max

ValidIPv4Literal(a) == isValidIPAddress(a) /\ ~includes(a, ":")

ValidIPv6Literal(a) == isValidIPAddress(a) /\ includes(a, ":")

\* C13: for a valid IPv4 literal and an integer prefix, isValidCIDR of
\* <ip>/<prefix> is true when the prefix is in 0..32 and false when it is
\* above 32; for a valid IPv6 literal, true in 0..128 and false above 128;
\* and it is false whenever the address part is no valid literal or the
\* /<prefix> part is missing or empty.
C13_PrefixRange ==
    (CalledIsValidCIDR /\ IsString(input)) =>
        LET s == input.s
            answer == outcome.got.ok
        IN IF ~includes(s, "/") \/ PrefixPart(s) = <<>>
           THEN ~answer
           ELSE /\ ~isValidIPAddress(AddressPart(s)) => ~answer
                /\ (ValidIPv4Literal(AddressPart(s)) /\ IsInteger(PrefixPart(s))) =>
                      answer = AtMost(PrefixPart(s), 32)
                /\ (ValidIPv6Literal(AddressPart(s)) /\ IsInteger(PrefixPart(s))) =>
                      answer = AtMost(PrefixPart(s), 128)

\* C13 witness: a valid IPv4 literal with the prefix 33 was answered false.
C13_Witness ==
    /\ CalledIsValidCIDR
    /\ IsString(input)
    /\ includes(input.s, "/")
    /\ ValidIPv4Literal(AddressPart(input.s))
    /\ PrefixPart(input.s) = <<"3", "3">>
    /\ ~outcome.got.ok

=============================================================================
